---- MODULE Spec2Model ----
(***************************************************************************)
(* Whitelist feature store, similarity-based decision engine and review   *)
(* pipeline of video_jiancha (src/src/whitelist/feature_store.py,          *)
(* src/src/pipeline/decision.py, src/src/pipeline/review_pipeline.py).     *)
(*                                                                         *)
(* Numbers.  Vectors are sequences of integers.  A stored (normalised)     *)
(* vector is kept in units of 1/UnitLen, so a unit vector has components   *)
(* such as <<10, 0>> or <<6, 8>>; an inner product of two of them is a     *)
(* similarity in hundredths (100 = 1.0).  The inputs are chosen so that    *)
(* the L2 norm is an exact integer; the 1e-8 added to the norm and         *)
(* float32 rounding are below the resolution of the model.                 *)
(* Slots are 0-based as in the code: the vector of slot i is storage[i+1]. *)
(***************************************************************************)
EXTENDS Integers, Sequences, FiniteSets, TLC

\* ---------------------------------------------------------------- bounds
MaxStore == 3
MaxTopK == 2
MaxBatch == 2
MaxSlots == 4

\* ------------------------------------------------------------- constants
Dimension == 2
UnitLen == 10
One == 100
DefaultPass == 90
DefaultReject == 60
DefaultTopK == 5
DefaultConfidenceThreshold == 80

\* ---------------------------------------------------------------- inputs
Ids == {"a", "b"}
ReviewIds == {"a"}
Paths == {"p1", "p2"}
AddVectors == {<<2, 0>>, <<3, 4>>, <<1, 0, 0>>}
QueryVectors == {<<4, 3>>, <<-1, 0>>, <<0, 0>>}
TopKs == 1..MaxTopK
EncodedFeatures == {<<10, 0>>, <<8, 6>>, <<-10, 0>>}
ThresholdValues == {60, 90}
MonotoneThresholdValues == {30, 60, 90}
VideoFiles == {[path |-> "/v/a.mp4", stem |-> "a"],
               [path |-> "/v/b.mp4", stem |-> "b"]}
PipelineFeatures == {<<10, 0>>, <<10, 0, 0>>}

VARIABLES
    FAISS_AVAILABLE,  \* module flag: faiss imported, else the numpy fallback
    records,          \* video_id -> VideoRecord
    id_to_idx,        \* video_id -> slot
    idx_to_id,        \* slot -> video_id
    storage,          \* index.ntotal vectors / features_matrix rows
    last,             \* the last call: its arguments and what it returned
    addsTrue,         \* history: add calls that returned True
    removesTrue,      \* history: remove calls that returned True
    removedIds,       \* history: ids removed (True) and not added again since
    disk,             \* the files under the storage path
    saved,            \* history: the store as it was at the last save
    auto_pass_threshold,    \* ReviewDecisionMaker fields, in hundredths
    auto_reject_threshold,
    enable_format_check,
    storage_path,     \* ReviewPipeline.storage_path is set (not None)
    threads,          \* the search and the remove call in flight, if any
    reviewer          \* SiliconFlowReviewer: its review settings, last call

readOnlyVars == <<FAISS_AVAILABLE, reviewer>>
fixedVars == <<FAISS_AVAILABLE, threads, reviewer>>
storeVars == <<records, id_to_idx, idx_to_id, storage>>
histVars == <<addsTrue, removesTrue, removedIds>>
diskVars == <<disk, saved>>
configVars == <<auto_pass_threshold, auto_reject_threshold,
                enable_format_check, storage_path>>

vars == <<FAISS_AVAILABLE, records, id_to_idx, idx_to_id, storage, last,
          addsTrue, removesTrue, removedIds, disk, saved,
          auto_pass_threshold, auto_reject_threshold, enable_format_check,
          storage_path, threads, reviewer>>

\* ------------------------------------------------------------ arithmetic
Min(a, b) == IF a <= b THEN a ELSE b

Max(a, b) == IF a >= b THEN a ELSE b

RECURSIVE DotFrom(_, _, _)
DotFrom(a, b, i) ==
    IF i > Len(a) THEN 0 ELSE a[i] * b[i] + DotFrom(a, b, i + 1)

\* np.dot of two vectors of equal length
Dot(a, b) == DotFrom(a, b, 1)

ISqrt(n) == CHOOSE r \in 0..n : r * r <= n /\ (r + 1) * (r + 1) > n

\* np.linalg.norm
Norm(v) == ISqrt(Dot(v, v))

\* feature / (np.linalg.norm(feature) + 1e-8): a zero vector stays zero
Normalize(v) ==
    LET n == Norm(v)
    IN  [i \in 1..Len(v) |-> IF n = 0 THEN 0 ELSE (v[i] * UnitLen) \div n]

\* ------------------------------------------------------------- the store
EmptyMap == [x \in {} |-> 0]

\* a ReviewResult (flags None is <<>>), with the store members review
\* touched, in order
NoReview ==
    [calls |-> <<>>, decision |-> "none", confidence |-> 0, flags |-> <<>>,
     similar_videos |-> <<>>]

\* the counts of a batch call: entries given, entries the loop reached,
\* and the counters of its result
NoBatch ==
    [total |-> 0, attempted |-> 0, success |-> 0, failed |-> 0,
     approved |-> 0, rejected |-> 0, manual_review |-> 0, results |-> <<>>,
     items |-> <<>>]

NoCall ==
    [op |-> "init", id |-> "", overwrite |-> FALSE, present |-> FALSE,
     dim |-> 0, ret |-> "none", query |-> <<>>, top_k |-> 0,
     results |-> <<>>, md |-> "none", enc |-> "none", review |-> NoReview,
     old_pass |-> 0, old_reject |-> 0, pass_given |-> FALSE,
     reject_given |-> FALSE, file |-> "none", batch |-> NoBatch]

Store ==
    [faiss |-> FAISS_AVAILABLE, records |-> records, id_to_idx |-> id_to_idx,
     idx_to_id |-> idx_to_id, storage |-> storage]

\* fault: size taken from the storage length
SizeOfStorage(st) == Len(st.storage)

\* FeatureStore.size
SizeOf(st) == Cardinality(DOMAIN st.records)
size == SizeOf(Store)

\* index.ntotal / len(features_matrix)
ntotal == Len(storage)

\* a VideoRecord; added_time (the wall clock) and the opaque metadata dict
\* are passed through by every operation and are left out
VideoRecord(video_id, video_path) ==
    [video_id |-> video_id, video_path |-> video_path]

MapWith(f, k, v) == [x \in DOMAIN f \cup {k} |-> IF x = k THEN v ELSE f[x]]
MapWithout(f, k) == [x \in DOMAIN f \ {k} |-> f[x]]

\* fault: remove forgets del self.idx_to_id[idx]
RemoveEffectKeepsSlot(st, video_id) ==
    [st EXCEPT !.records = MapWithout(st.records, video_id),
               !.id_to_idx = MapWithout(st.id_to_idx, video_id)]

\* fault: remove deletes the forward mapping only
RemoveEffectForwardOnly(st, video_id) ==
    [st EXCEPT !.id_to_idx = MapWithout(st.id_to_idx, video_id)]

\* the three del statements of remove, for an id that is in records
RemoveEffect(st, video_id) ==
    [st EXCEPT !.records = MapWithout(st.records, video_id),
               !.id_to_idx = MapWithout(st.id_to_idx, video_id),
               !.idx_to_id = MapWithout(st.idx_to_id, st.id_to_idx[video_id])]

\* remove as a function of the store: the store it leaves
RemoveOn(st, video_id) ==
    IF video_id \notin DOMAIN st.records THEN st ELSE RemoveEffect(st, video_id)

\* fault: add never refuses an existing id
AddRefusesNever(st, video_id, overwrite) == FALSE

\* add's first test: the id exists and overwrite is off
AddRefuses(st, video_id, overwrite) ==
    video_id \in DOMAIN st.records /\ ~overwrite

\* feature.shape != (self.dimension,)
DimensionMismatch(feature) == Len(feature) # Dimension

\* index.add(feature) / np.vstack: the vector storage after the append
AppendVector(st, feature) == Append(st.storage, Normalize(feature))

\* fault: the slot is taken from the number of live records
NewSlotCountsLive(st, newStorage) == Cardinality(DOMAIN st.records)

\* idx = index.ntotal - 1, read after the append
NewSlot(st, newStorage) == Len(newStorage) - 1

\* the part of add after the dimension check, on the store `st`
AddEffect(st, video_id, feature, video_path) ==
    LET newStorage == AppendVector(st, feature)
        idx == NewSlot(st, newStorage)
    IN  [st EXCEPT !.storage = newStorage,
                   !.records = MapWith(st.records, video_id,
                                       VideoRecord(video_id, video_path)),
                   !.id_to_idx = MapWith(st.id_to_idx, video_id, idx),
                   !.idx_to_id = MapWith(st.idx_to_id, idx, video_id)]

\* what add returns: "false", "raise" (ValueError) or "true"
AddReturn(st, video_id, feature, overwrite) ==
    IF AddRefuses(st, video_id, overwrite) THEN "false"
    ELSE IF DimensionMismatch(feature) THEN "raise"
    ELSE "true"

\* fault: an overwriting add appends without removing the old entry
AddOnKeepsOldSlot(st, video_id, feature, video_path, overwrite) ==
    IF AddRefuses(st, video_id, overwrite) THEN st
    ELSE IF DimensionMismatch(feature) THEN RemoveOn(st, video_id)
    ELSE AddEffect(st, video_id, feature, video_path)

\* the store add leaves
AddOn(st, video_id, feature, video_path, overwrite) ==
    IF AddRefuses(st, video_id, overwrite) THEN st
    ELSE LET afterRemove == RemoveOn(st, video_id)
         IN  IF DimensionMismatch(feature) THEN afterRemove
             ELSE AddEffect(afterRemove, video_id, feature, video_path)

\* ---------------------------------------------------------------- search
\* scores of every stored vector against the normalised query:
\* np.dot(features_matrix, query.T) / the inner products of the flat index
Scores(st, q) ==
    LET nq == Normalize(q)
    IN  [i \in 1..Len(st.storage) |-> Dot(st.storage[i], nq)]

\* fault: the ranking is left ascending (the [::-1] is missing)
RankedBeforeAscending(faiss, scores, i, j) ==
    \/ scores[i + 1] < scores[j + 1]
    \/ /\ scores[i + 1] = scores[j + 1]
       /\ i < j

\* slot i is ranked before slot j.  Descending score; equal scores: the
\* numpy path reverses a stable ascending argsort (higher slot first), the
\* flat inner-product index reports the lower slot first.
RankedBefore(faiss, scores, i, j) ==
    \/ scores[i + 1] > scores[j + 1]
    \/ /\ scores[i + 1] = scores[j + 1]
       /\ IF faiss THEN i < j ELSE i > j

\* all slots in ranking order
Ranked(faiss, scores) ==
    LET slots == 0..(Len(scores) - 1)
    IN  [p \in 1..Len(scores) |->
            CHOOSE i \in slots :
                Cardinality({j \in slots : RankedBefore(faiss, scores, j, i)})
                    = p - 1]

\* fault: no over-fetch, top_k candidates only
CandidatesNoOverfetch(faiss, scores, top_k) ==
    SubSeq(Ranked(faiss, scores), 1, Min(top_k, Len(scores)))

\* k = min(top_k * 2, ntotal) / np.argsort(scores)[::-1][:top_k * 2]
Candidates(faiss, scores, top_k) ==
    SubSeq(Ranked(faiss, scores), 1, Min(top_k * 2, Len(scores)))

\* idx in self.idx_to_id
IsLiveSlot(st, idx) == idx \in DOMAIN st.idx_to_id

ResultOf(st, scores, idx) ==
    [video_id |-> st.idx_to_id[idx],
     similarity |-> scores[idx + 1],
     record |-> st.records[st.idx_to_id[idx]]]

\* fault: the loop does not stop at top_k results
RECURSIVE CollectNoBreak(_, _, _, _, _, _)
CollectNoBreak(st, scores, cands, i, results, top_k) ==
    IF i > Len(cands) THEN results
    ELSE IF IsLiveSlot(st, cands[i])
         THEN CollectNoBreak(st, scores, cands, i + 1,
                             Append(results, ResultOf(st, scores, cands[i])),
                             top_k)
         ELSE CollectNoBreak(st, scores, cands, i + 1, results, top_k)

\* the filtering loop over zip(scores, indices), from candidate i on
RECURSIVE Collect(_, _, _, _, _, _)
Collect(st, scores, cands, i, results, top_k) ==
    IF i > Len(cands) THEN results
    ELSE IF IsLiveSlot(st, cands[i])
         THEN LET r == Append(results, ResultOf(st, scores, cands[i]))
              IN  IF Len(r) >= top_k THEN r
                  ELSE Collect(st, scores, cands, i + 1, r, top_k)
         ELSE Collect(st, scores, cands, i + 1, results, top_k)

\* FeatureStore.search on the store `st`
SearchOn(st, q, top_k) ==
    IF SizeOf(st) = 0 THEN <<>>
    ELSE LET scores == Scores(st, q)
         IN  Collect(st, scores, Candidates(st.faiss, scores, top_k), 1,
                     <<>>, top_k)

search(q, top_k) == SearchOn(Store, q, top_k)

\* -------------------------------------------------------------- decision
\* what extractor.get_video_metadata does: raise, or a VideoMetadata
MetadataOutcomes ==
    {[raises |-> TRUE, is_vertical |-> FALSE, has_black_borders |-> FALSE]}
    \cup {[raises |-> FALSE, is_vertical |-> v, has_black_borders |-> b] :
             v \in BOOLEAN, b \in BOOLEAN}

\* what extractor.encode does: raise, or a feature vector
EncodeOutcomes ==
    {[raises |-> TRUE, feature |-> <<>>]}
    \cup {[raises |-> FALSE, feature |-> f] : f \in EncodedFeatures}

MdTag(md) ==
    IF md.raises THEN "raise"
    ELSE IF md.is_vertical
         THEN (IF md.has_black_borders THEN "vertical+borders" ELSE "vertical")
         ELSE (IF md.has_black_borders THEN "borders" ELSE "plain")

\* the flags of the format check, in the order they are appended
FormatFlags(md) ==
    (IF md.is_vertical THEN <<"vertical_video">> ELSE <<>>)
        \o (IF md.has_black_borders THEN <<"black_borders">> ELSE <<>>)

\* fault: the pass comparison points the wrong way
DecideInverted(max_similarity, auto_pass, auto_reject) ==
    IF max_similarity <= auto_pass THEN "approved"
    ELSE IF max_similarity <= auto_reject THEN "rejected"
    ELSE "manual_review"

\* fault: the pass threshold is exclusive
DecideStrict(max_similarity, auto_pass, auto_reject) ==
    IF max_similarity > auto_pass THEN "approved"
    ELSE IF max_similarity <= auto_reject THEN "rejected"
    ELSE "manual_review"

\* step 4: the decision for the top similarity
Decide(max_similarity, auto_pass, auto_reject) ==
    IF max_similarity >= auto_pass THEN "approved"
    ELSE IF max_similarity <= auto_reject THEN "rejected"
    ELSE "manual_review"

\* the ReviewResult of the store.size == 0 branch
EmptyStoreResult ==
    [NoReview EXCEPT !.calls = <<"size">>, !.decision = "manual_review",
                     !.confidence = 0, !.flags = <<"empty_store">>]

\* fault: the confidence is taken from the last similar video
SearchAndDecideLast(st, auto_pass, auto_reject, feature, top_k) ==
    LET similar_videos == SearchOn(st, feature, top_k)
    IN  IF similar_videos = <<>>
        THEN [NoReview EXCEPT !.calls = <<"size", "search">>,
                              !.decision = "manual_review",
                              !.confidence = 0, !.flags = <<"no_match">>]
        ELSE LET max_similarity ==
                     similar_videos[Len(similar_videos)].similarity
                 decision == Decide(max_similarity, auto_pass, auto_reject)
             IN  [NoReview EXCEPT
                     !.calls = <<"size", "search">>,
                     !.decision = decision,
                     !.confidence = max_similarity,
                     !.flags = IF decision = "rejected"
                               THEN <<"low_similarity">> ELSE <<>>,
                     !.similar_videos = similar_videos]

\* the results from store.search on: no match, or the decision of step 4
SearchAndDecide(st, auto_pass, auto_reject, feature, top_k) ==
    LET similar_videos == SearchOn(st, feature, top_k)
    IN  IF similar_videos = <<>>
        THEN [NoReview EXCEPT !.calls = <<"size", "search">>,
                              !.decision = "manual_review",
                              !.confidence = 0, !.flags = <<"no_match">>]
        ELSE LET max_similarity == similar_videos[1].similarity
                 decision == Decide(max_similarity, auto_pass, auto_reject)
             IN  [NoReview EXCEPT
                     !.calls = <<"size", "search">>,
                     !.decision = decision,
                     !.confidence = max_similarity,
                     !.flags = IF decision = "rejected"
                               THEN <<"low_similarity">> ELSE <<>>,
                     !.similar_videos = similar_videos]

\* fault: the empty-store test is missing
ReviewSimilarityAlwaysSearches(st, auto_pass, auto_reject, feature, top_k) ==
    SearchAndDecide(st, auto_pass, auto_reject, feature, top_k)

\* steps 3 and 4: from the store.size test on
ReviewSimilarity(st, auto_pass, auto_reject, feature, top_k) ==
    IF SizeOf(st) = 0 THEN EmptyStoreResult
    ELSE SearchAndDecide(st, auto_pass, auto_reject, feature, top_k)

\* fault: only vertical videos are rejected by the format check
FormatRejectsVerticalOnly(format_check, md) == format_check /\ md.is_vertical

\* the format check rejects: it is enabled and a flag was raised
FormatRejects(format_check, md) == format_check /\ FormatFlags(md) # <<>>

\* fault: a failed feature extraction is sent to manual review
ReviewOnLenient(st, auto_pass, auto_reject, format_check, md, enc, top_k) ==
    IF md.raises
    THEN [NoReview EXCEPT !.decision = "rejected", !.confidence = One,
                          !.flags = <<"read_error">>]
    ELSE IF FormatRejects(format_check, md)
    THEN [NoReview EXCEPT !.decision = "rejected", !.confidence = One,
                          !.flags = FormatFlags(md)]
    ELSE IF enc.raises
    THEN [NoReview EXCEPT !.decision = "manual_review", !.confidence = 0,
                          !.flags = <<"extraction_error">>]
    ELSE ReviewSimilarity(st, auto_pass, auto_reject, enc.feature, top_k)

\* ReviewDecisionMaker.review: the ReviewResult for the collaborators'
\* outcomes md and enc
ReviewOn(st, auto_pass, auto_reject, format_check, md, enc, top_k) ==
    IF md.raises
    THEN [NoReview EXCEPT !.decision = "rejected", !.confidence = One,
                          !.flags = <<"read_error">>]
    ELSE IF FormatRejects(format_check, md)
    THEN [NoReview EXCEPT !.decision = "rejected", !.confidence = One,
                          !.flags = FormatFlags(md)]
    ELSE IF enc.raises
    THEN [NoReview EXCEPT !.decision = "rejected", !.confidence = One,
                          !.flags = <<"extraction_error">>]
    ELSE ReviewSimilarity(st, auto_pass, auto_reject, enc.feature, top_k)

\* an argument of update_thresholds: None, or a value
NoneArg == [given |-> FALSE, value |-> 0]
ThresholdArgs ==
    {NoneArg} \cup {[given |-> TRUE, value |-> v] : v \in ThresholdValues}

\* ----------------------------------------------------------- persistence
EmptyStore(faiss) ==
    [faiss |-> faiss, records |-> EmptyMap, id_to_idx |-> EmptyMap,
     idx_to_id |-> EmptyMap, storage |-> <<>>]

\* json.dump writes the integer keys of a dict as strings
JsonKey(k) == ToString(k)

\* int(k) on a key read back from metadata.json
ParseInt(str) == CHOOSE n \in 0..(MaxStore + 1) : ToString(n) = str

\* the "idx_to_id" member of metadata.json
DumpIdxToId(m) ==
    [k \in {JsonKey(idx) : idx \in DOMAIN m} |-> m[ParseInt(k)]]

\* {int(k): v for k, v in meta["idx_to_id"].items()}
ParseIdxToId(m) ==
    [idx \in {ParseInt(k) : k \in DOMAIN m} |-> m[JsonKey(idx)]]

\* the meta dict of save, as metadata.json holds it
MetaOf(st) ==
    [records |-> st.records, id_to_idx |-> st.id_to_idx,
     idx_to_id |-> DumpIdxToId(st.idx_to_id)]

\* `torn` is history: a save was cut short since the last complete one
NoFiles ==
    [has_index |-> FALSE, index |-> <<>>, has_meta |-> FALSE,
     meta |-> MetaOf(EmptyStore(FALSE)), torn |-> FALSE]

\* the files after save: features.index / features.npy, then metadata.json
SaveOn(st, d) ==
    [has_index |-> TRUE, index |-> st.storage, has_meta |-> TRUE,
     meta |-> MetaOf(st), torn |-> FALSE]

\* the files after a save that ended after `steps` of its write steps:
\* 0 the directory only, 1 the index file too; the files are written in
\* place, step by step
SaveInterruptedOn(st, d, steps) ==
    IF steps >= 1
    THEN [d EXCEPT !.has_index = TRUE, !.index = st.storage, !.torn = TRUE]
    ELSE [d EXCEPT !.torn = TRUE]

\* fault: load does not read the index file
LoadIndexKeepsMemory(st, d) == st.storage

\* the vector storage after load: read only if the index file exists
LoadIndex(st, d) == IF d.has_index THEN d.index ELSE st.storage

\* the store load leaves; without metadata.json it returns early
LoadOn(st, d) ==
    IF ~d.has_meta THEN st
    ELSE [st EXCEPT !.records = d.meta.records,
                    !.id_to_idx = d.meta.id_to_idx,
                    !.idx_to_id = ParseIdxToId(d.meta.idx_to_id),
                    !.storage = LoadIndex(st, d)]

\* FeatureStore(dimension, storage_path) on a path that holds the files d:
\* the empty store, then load if the path exists
FreshStoreOn(faiss, d) == LoadOn(EmptyStore(faiss), d)

\* -------------------------------------------------------------- pipeline
\* an optional argument: None, or a value
NoId == [given |-> FALSE, value |-> ""]
IdArgs == {NoId, [given |-> TRUE, value |-> "a"]}

\* the video_path argument: None (a dict entry without "path"), or a path
NoPath == [given |-> FALSE, path |-> "", stem |-> ""]
PathArg(f) == [given |-> TRUE, path |-> f.path, stem |-> f.stem]

\* what extractor.encode does for the pipeline: raise, or a feature; a
\* feature of another length is an extractor whose feature_dim is not the
\* dimension of the (loaded) store
PipelineEncodeOutcomes ==
    {[raises |-> TRUE, feature |-> <<>>]}
    \cup {[raises |-> FALSE, feature |-> f] : f \in PipelineFeatures}

\* video_id if given, else video_path.stem
IngestId(video_path, video_id) ==
    IF video_id.given THEN video_id.value ELSE video_path.stem

\* fault: ingest adds with overwrite=True
IngestOnOverwrites(st, video_path, exists, video_id, enc) ==
    IF ~video_path.given THEN [ret |-> "raise", store |-> st]
    ELSE IF ~exists THEN [ret |-> "false", store |-> st]
    ELSE IF enc.raises THEN [ret |-> "false", store |-> st]
    ELSE LET id == IngestId(video_path, video_id)
             r == AddReturn(st, id, enc.feature, TRUE)
         IN  [ret |-> IF r = "true" THEN "true" ELSE "false",
              store |-> AddOn(st, id, enc.feature, video_path.path, TRUE)]

\* ReviewPipeline.ingest_approved_video on the store `st`: what it returns
\* ("raise": the TypeError of Path(None), outside the try) and the store
\* it leaves.  The ValueError of add is caught with every other exception.
IngestOn(st, video_path, exists, video_id, enc) ==
    IF ~video_path.given THEN [ret |-> "raise", store |-> st]
    ELSE IF ~exists THEN [ret |-> "false", store |-> st]
    ELSE IF enc.raises THEN [ret |-> "false", store |-> st]
    ELSE LET id == IngestId(video_path, video_id)
             r == AddReturn(st, id, enc.feature, FALSE)
         IN  [ret |-> IF r = "true" THEN "true" ELSE "false",
              store |-> AddOn(st, id, enc.feature, video_path.path, FALSE)]

\* the entries of an ingest_approved_videos list, each with what the file
\* system and the extractor answer for it: a good entry, an entry without
\* "path", a nonexistent file without "id", a failing encode
BatchEntries ==
    {[video_id |-> [given |-> TRUE, value |-> "a"],
      video_path |-> [given |-> TRUE, path |-> "/v/a.mp4", stem |-> "a"],
      exists |-> TRUE, enc |-> [raises |-> FALSE, feature |-> <<10, 0>>]],
     [video_id |-> [given |-> TRUE, value |-> "a"],
      video_path |-> NoPath,
      exists |-> FALSE, enc |-> [raises |-> TRUE, feature |-> <<>>]],
     [video_id |-> NoId,
      video_path |-> [given |-> TRUE, path |-> "/v/b.mp4", stem |-> "b"],
      exists |-> FALSE, enc |-> [raises |-> TRUE, feature |-> <<>>]],
     [video_id |-> [given |-> TRUE, value |-> "b"],
      video_path |-> [given |-> TRUE, path |-> "/v/b.mp4", stem |-> "b"],
      exists |-> TRUE, enc |-> [raises |-> TRUE, feature |-> <<>>]]}

\* the lists of at most MaxBatch elements of S
Lists(S) == UNION {[1..n -> S] : n \in 0..MaxBatch}

\* the for loop of ingest_approved_videos from entry i on; an exception
\* of ingest_approved_video leaves the loop and the function
RECURSIVE IngestLoop(_, _, _, _)
IngestLoop(st, videos, i, acc) ==
    IF i > Len(videos) THEN [acc EXCEPT !.store = st]
    ELSE LET v == videos[i]
             out == IngestOn(st, v.video_path, v.exists, v.video_id, v.enc)
         IN  IF out.ret = "raise"
             THEN [acc EXCEPT !.ret = "raise", !.store = st]
             ELSE IF out.ret = "true"
             THEN IngestLoop(
                      out.store, videos, i + 1,
                      [acc EXCEPT !.attempted = @ + 1, !.success = @ + 1])
             ELSE IngestLoop(
                      out.store, videos, i + 1,
                      [acc EXCEPT !.attempted = @ + 1, !.failed = @ + 1])

\* review raises: it reaches store.search on a store with live records and
\* a query whose length is not the store's dimension (the ValueError of
\* np.dot, the assertion of the flat index)
ReviewRaises(st, format_check, md, enc) ==
    /\ ~md.raises
    /\ ~FormatRejects(format_check, md)
    /\ ~enc.raises
    /\ SizeOf(st) > 0
    /\ Len(enc.feature) # Dimension

\* the videos of a review_batch list, each as what the extractor answers
\* for it: a well-formed video, one whose feature has another length, one
\* whose metadata cannot be read
BatchItems ==
    {[md |-> [raises |-> FALSE, is_vertical |-> FALSE,
              has_black_borders |-> FALSE],
      enc |-> [raises |-> FALSE, feature |-> f]] :
        f \in {<<10, 0>>, <<10, 0, 0>>}}
    \cup {[md |-> [raises |-> TRUE, is_vertical |-> FALSE,
                   has_black_borders |-> FALSE],
           enc |-> [raises |-> TRUE, feature |-> <<>>]]}

\* the entry of the results list for one video: the decision of its
\* ReviewResult, or None
BatchResult(st, auto_pass, auto_reject, format_check, item) ==
    IF ReviewRaises(st, format_check, item.md, item.enc) THEN "None"
    ELSE ReviewOn(st, auto_pass, auto_reject, format_check, item.md,
                  item.enc, DefaultTopK).decision

\* one pass of the loop body on the counters
Counted(acc, r) ==
    LET a == [acc EXCEPT !.attempted = @ + 1, !.results = Append(@, r)]
    IN  IF r = "None" THEN [a EXCEPT !.failed = @ + 1]
        ELSE IF r = "approved" THEN [a EXCEPT !.approved = @ + 1]
        ELSE IF r = "rejected" THEN [a EXCEPT !.rejected = @ + 1]
        ELSE [a EXCEPT !.manual_review = @ + 1]

\* fault: the exception of one video ends the loop
RECURSIVE ReviewLoopStops(_, _, _, _, _, _, _)
ReviewLoopStops(st, auto_pass, auto_reject, format_check, items, i, acc) ==
    IF i > Len(items) THEN acc
    ELSE LET r == BatchResult(st, auto_pass, auto_reject, format_check,
                              items[i])
         IN  IF r = "None" THEN Counted(acc, r)
             ELSE ReviewLoopStops(st, auto_pass, auto_reject, format_check,
                                  items, i + 1, Counted(acc, r))

\* the for loop of review_batch from video i on, with its try/except
RECURSIVE ReviewLoop(_, _, _, _, _, _, _)
ReviewLoop(st, auto_pass, auto_reject, format_check, items, i, acc) ==
    IF i > Len(items) THEN acc
    ELSE ReviewLoop(st, auto_pass, auto_reject, format_check, items, i + 1,
                    Counted(acc, BatchResult(st, auto_pass, auto_reject,
                                             format_check, items[i])))

\* how far ingest_approved_video got with the file
FileTag(video_path, exists) ==
    IF ~video_path.given THEN "nopath"
    ELSE IF exists THEN "exists" ELSE "missing"

\* ------------------------------------------------- siliconflow reviewer
\* first.get(key, default) on the JSON object of the model's answer
DictGet(d, key, default) == IF key \in d.keys THEN d[key] ELSE default

NoFlags == [null |-> FALSE, items |-> {}]
FlagValues == {[null |-> FALSE, items |-> {"blurry"}],
               [null |-> TRUE, items |-> {}]}
Decisions == {"approved", "rejected", "manual_review"}
Confidences == {70, 90}

\* review_result of _call_api and _call_api_double_check: the JSON object
\* of the model's answer, taken as it comes
ApiDicts ==
    {[keys |-> ks \cup {"flags"},
      decision |-> IF "decision" \in ks THEN dec ELSE "",
      confidence |-> IF "confidence" \in ks THEN c ELSE 0,
      flags |-> f] :
        ks \in SUBSET {"decision", "confidence"}, dec \in Decisions,
        c \in Confidences, f \in FlagValues}

NotCalled == [raises |-> FALSE, called |-> FALSE, dict |-> <<>>]

\* what a call of the API does: raise, or return a dict
ApiOutcomes ==
    {[raises |-> TRUE, called |-> TRUE, dict |-> <<>>]}
    \cup {[raises |-> FALSE, called |-> TRUE, dict |-> d] : d \in ApiDicts}

\* what review_video returns
VideoResult(decision, confidence, flags, double_checked, f, s, error) ==
    [ret |-> "returned", decision |-> decision, confidence |-> confidence,
     flags |-> flags, double_checked |-> double_checked,
     first_result |-> f, second_result |-> s, error |-> error]

\* the first result returned as it is
ResultOfDict(d) ==
    VideoResult(DictGet(d, "decision", "<absent>"),
                DictGet(d, "confidence", 0), d.flags, FALSE, "", "", "")

\* first.get("flags", []) + second.get("flags", []) raises on a null
MergeRaises(first, second) == first.flags.null \/ second.flags.null

\* fault: a disagreement with an approval in it is approved
merge_review_results_lenient(first, second) ==
    LET first_decision == DictGet(first, "decision", "manual_review")
        second_decision == DictGet(second, "decision", "manual_review")
        first_confidence == DictGet(first, "confidence", 50)
        second_confidence == DictGet(second, "confidence", 50)
        flags == [null |-> FALSE,
                  items |-> first.flags.items \cup second.flags.items]
    IN  IF first_decision = second_decision
        THEN VideoResult(first_decision,
                         Min(One, (first_confidence + second_confidence)
                                      \div 2 + 10),
                         flags, TRUE, first_decision, second_decision, "")
        ELSE IF first_decision = "approved" \/ second_decision = "approved"
        THEN VideoResult("approved",
                         Max(first_confidence, second_confidence),
                         flags, TRUE, first_decision, second_decision, "")
        ELSE VideoResult("manual_review",
                         (first_confidence + second_confidence) \div 2,
                         flags, TRUE, first_decision, second_decision, "")

\* SiliconFlowReviewer._merge_review_results
merge_review_results(first, second) ==
    LET first_decision == DictGet(first, "decision", "manual_review")
        second_decision == DictGet(second, "decision", "manual_review")
        first_confidence == DictGet(first, "confidence", 50)
        second_confidence == DictGet(second, "confidence", 50)
        flags == [null |-> FALSE,
                  items |-> first.flags.items \cup second.flags.items]
    IN  IF first_decision = second_decision
        THEN VideoResult(first_decision,
                         Min(One, (first_confidence + second_confidence)
                                      \div 2 + 10),
                         flags, TRUE, first_decision, second_decision, "")
        ELSE IF first_decision = "rejected" \/ second_decision = "rejected"
        THEN VideoResult("rejected",
                         Max(first_confidence, second_confidence),
                         flags, TRUE, first_decision, second_decision, "")
        ELSE VideoResult("manual_review",
                         (first_confidence + second_confidence) \div 2,
                         flags, TRUE, first_decision, second_decision, "")

\* the except branch of the second round: the first result, turned to
\* manual_review unless it is a rejection
SecondRoundFailed(first) ==
    IF DictGet(first, "decision", "<absent>") # "rejected"
    THEN [ResultOfDict(first) EXCEPT !.decision = "manual_review"]
    ELSE ResultOfDict(first)

\* the second round is due: double check enabled and a low confidence
NeedsDoubleCheck(cfg, first) ==
    /\ cfg.enable_double_check
    /\ DictGet(first, "confidence", One) < cfg.confidence_threshold

\* what the steps before the API call do with the video
PreOutcomes == {"too_short", "extract_raise", "no_frames", "ok"}

NoResult == VideoResult("", 0, NoFlags, FALSE, "", "", "")

\* SiliconFlowReviewer.review_video: the path taken and the result
ReviewVideoOn(cfg, pre, first, second) ==
    IF pre = "extract_raise"
    THEN [path |-> pre, first |-> NotCalled, second |-> NotCalled,
          result |-> [NoResult EXCEPT !.ret = "raise"]]
    ELSE IF pre = "too_short"
    THEN [path |-> pre, first |-> NotCalled, second |-> NotCalled,
          result |-> VideoResult("rejected", One,
                                 [null |-> FALSE, items |-> {"too_short"}],
                                 FALSE, "", "", "")]
    ELSE IF pre = "no_frames"
    THEN [path |-> pre, first |-> NotCalled, second |-> NotCalled,
          result |-> VideoResult("rejected", One, NoFlags, FALSE, "", "",
                                 "frame_extraction_failed")]
    ELSE IF first.raises
    THEN [path |-> "api_failed", first |-> first, second |-> NotCalled,
          result |-> VideoResult("manual_review", 0, NoFlags, FALSE, "",
                                 "", "api")]
    ELSE IF ~NeedsDoubleCheck(cfg, first.dict)
    THEN [path |-> "skipped", first |-> first, second |-> NotCalled,
          result |-> ResultOfDict(first.dict)]
    ELSE IF second.raises \/ MergeRaises(first.dict, second.dict)
    THEN [path |-> "second_failed", first |-> first, second |-> second,
          result |-> SecondRoundFailed(first.dict)]
    ELSE [path |-> "merged", first |-> first, second |-> second,
          result |-> merge_review_results(first.dict, second.dict)]

\* no call of review_video yet
NoVideoCall ==
    [path |-> "none", first |-> NotCalled, second |-> NotCalled,
     result |-> [NoResult EXCEPT !.ret = "none"]]

\* review.confidence_threshold and review.enable_double_check of the
\* configuration, with their defaults
NoReviewer ==
    [confidence_threshold |-> DefaultConfidenceThreshold,
     enable_double_check |-> TRUE, call |-> NoVideoCall]

\* ----------------------------------------------------------- concurrency
\* the locals of a search call and of a remove call that have not returned
\* yet, with the statement each is at; "idle": no such call
NoThreads ==
    [search |-> [pc |-> "idle", top_k |-> 0, scores |-> <<>>, cands |-> <<>>,
                 i |-> 0, video_id |-> "", results |-> <<>>],
     remove |-> [pc |-> "idle", video_id |-> "", idx |-> 0]]

\* ----------------------------------------------------------------- state
InitWhitelist ==
    /\ FAISS_AVAILABLE \in BOOLEAN
    /\ records = EmptyMap
    /\ id_to_idx = EmptyMap
    /\ idx_to_id = EmptyMap
    /\ storage = <<>>
    /\ last = NoCall
    /\ addsTrue = 0
    /\ removesTrue = 0
    /\ removedIds = {}
    /\ disk = NoFiles
    /\ saved = EmptyStore(FAISS_AVAILABLE)
    /\ threads = NoThreads

\* the store, and a SiliconFlow reviewer with the default review settings
InitStore ==
    /\ InitWhitelist
    /\ reviewer = NoReviewer

\* a store and a decision maker constructed with the default arguments
Init ==
    /\ InitStore
    /\ auto_pass_threshold = DefaultPass
    /\ auto_reject_threshold = DefaultReject
    /\ enable_format_check = TRUE
    /\ storage_path = TRUE

\* the same, with the format check switched on or off at construction
InitReview ==
    /\ InitStore
    /\ auto_pass_threshold = DefaultPass
    /\ auto_reject_threshold = DefaultReject
    /\ enable_format_check \in BOOLEAN
    /\ storage_path = TRUE

SetStore(st) ==
    /\ records' = st.records
    /\ id_to_idx' = st.id_to_idx
    /\ idx_to_id' = st.idx_to_id
    /\ storage' = st.storage

\* FeatureStore.add(video_id, feature, video_path, overwrite=overwrite),
\* while fewer than `limit` adds have returned True
AddWithin(limit, video_id, feature, video_path, overwrite) ==
    LET ret == AddReturn(Store, video_id, feature, overwrite)
        inner == video_id \in DOMAIN records /\ overwrite
    IN  /\ addsTrue < limit
        /\ inner => removesTrue < limit
        /\ SetStore(AddOn(Store, video_id, feature, video_path, overwrite))
        /\ last' = [NoCall EXCEPT !.op = "add", !.id = video_id,
                                  !.overwrite = overwrite,
                                  !.present = (video_id \in DOMAIN records),
                                  !.dim = Len(feature), !.ret = ret]
        /\ addsTrue' = IF ret = "true" THEN addsTrue + 1 ELSE addsTrue
        /\ removesTrue' = IF inner THEN removesTrue + 1 ELSE removesTrue
        /\ removedIds' = IF ret = "true" THEN removedIds \ {video_id}
                         ELSE IF inner THEN removedIds \cup {video_id}
                         ELSE removedIds
        /\ UNCHANGED <<fixedVars, diskVars, configVars>>

Add(video_id, feature, video_path, overwrite) ==
    AddWithin(MaxStore, video_id, feature, video_path, overwrite)

\* FeatureStore.remove(video_id), while fewer than `limit` removes have
\* returned True
RemoveWithin(limit, video_id) ==
    LET ok == video_id \in DOMAIN records
    IN  /\ ok => removesTrue < limit
        /\ SetStore(RemoveOn(Store, video_id))
        /\ last' = [NoCall EXCEPT !.op = "remove", !.id = video_id,
                                  !.present = ok,
                                  !.ret = IF ok THEN "true" ELSE "false"]
        /\ removesTrue' = IF ok THEN removesTrue + 1 ELSE removesTrue
        /\ removedIds' = IF ok THEN removedIds \cup {video_id} ELSE removedIds
        /\ UNCHANGED <<fixedVars, addsTrue, diskVars, configVars>>

Remove(video_id) == RemoveWithin(MaxStore, video_id)

\* FeatureStore.search(query_feature, top_k)
Search(q, top_k) ==
    /\ last' = [NoCall EXCEPT !.op = "search", !.query = q, !.top_k = top_k,
                              !.ret = "list", !.results = search(q, top_k)]
    /\ UNCHANGED <<fixedVars, storeVars, histVars, diskVars,
                   configVars>>

\* FeatureStore.save(path)
Save ==
    /\ disk' = SaveOn(Store, disk)
    /\ saved' = Store
    /\ last' = [NoCall EXCEPT !.op = "save", !.ret = "saved"]
    /\ UNCHANGED <<fixedVars, storeVars, histVars, configVars>>

\* FeatureStore.save(path), ended by an error or a kill after `steps`
\* write steps
SaveInterrupted(steps) ==
    /\ disk' = SaveInterruptedOn(Store, disk, steps)
    /\ last' = [NoCall EXCEPT !.op = "save", !.ret = "interrupted"]
    /\ UNCHANGED <<fixedVars, storeVars, histVars, saved, configVars>>

\* FeatureStore.load(path)
Load ==
    /\ SetStore(LoadOn(Store, disk))
    /\ last' = [NoCall EXCEPT !.op = "load",
                              !.ret = IF disk.has_meta THEN "loaded"
                                      ELSE "absent"]
    /\ removedIds' = IF disk.has_meta
                     THEN removedIds \ DOMAIN disk.meta.records
                     ELSE removedIds
    /\ UNCHANGED <<fixedVars, addsTrue, removesTrue, diskVars,
                   configVars>>

\* ReviewDecisionMaker.review(video_path, top_k), the extractor answering
\* md to get_video_metadata and enc to encode
Review(md, enc, top_k) ==
    /\ last' = [NoCall EXCEPT
                   !.op = "review", !.top_k = top_k, !.md = MdTag(md),
                   !.enc = IF enc.raises THEN "raise" ELSE "feature",
                   !.query = enc.feature,
                   !.review = ReviewOn(Store, auto_pass_threshold,
                                       auto_reject_threshold,
                                       enable_format_check, md, enc, top_k)]
    /\ UNCHANGED <<fixedVars, storeVars, histVars, diskVars,
                   configVars>>

\* fault: both thresholds are assigned, None included
UpdateThresholdsBoth(auto_pass, auto_reject) ==
    /\ auto_pass_threshold' = auto_pass.value
    /\ auto_reject_threshold' = auto_reject.value
    /\ last' = [NoCall EXCEPT !.op = "update_thresholds",
                              !.old_pass = auto_pass_threshold,
                              !.old_reject = auto_reject_threshold,
                              !.pass_given = auto_pass.given,
                              !.reject_given = auto_reject.given]
    /\ UNCHANGED <<fixedVars, storeVars, histVars, diskVars,
                   enable_format_check, storage_path>>

\* ReviewDecisionMaker.update_thresholds(auto_pass, auto_reject)
UpdateThresholds(auto_pass, auto_reject) ==
    /\ auto_pass_threshold' =
          IF auto_pass.given THEN auto_pass.value ELSE auto_pass_threshold
    /\ auto_reject_threshold' =
          IF auto_reject.given THEN auto_reject.value
          ELSE auto_reject_threshold
    /\ last' = [NoCall EXCEPT !.op = "update_thresholds",
                              !.old_pass = auto_pass_threshold,
                              !.old_reject = auto_reject_threshold,
                              !.pass_given = auto_pass.given,
                              !.reject_given = auto_reject.given]
    /\ UNCHANGED <<fixedVars, storeVars, histVars, diskVars,
                   enable_format_check, storage_path>>

\* ReviewPipeline.ingest_approved_video(video_path, video_id), called as
\* `op` (feedback_approved passes its arguments on); the file exists or
\* not and the extractor answers enc
IngestApprovedVideo(op, video_path, exists, video_id, enc) ==
    LET out == IngestOn(Store, video_path, exists, video_id, enc)
        id == IngestId(video_path, video_id)
        called == video_path.given /\ exists
    IN  /\ out.ret = "true" => addsTrue < MaxStore
        /\ SetStore(out.store)
        /\ last' = [NoCall EXCEPT
                       !.op = op, !.id = id,
                       !.present = (id \in DOMAIN records),
                       !.file = FileTag(video_path, exists),
                       !.enc = IF ~called THEN "none"
                               ELSE IF enc.raises THEN "raise" ELSE "feature",
                       !.dim = IF called THEN Len(enc.feature) ELSE 0,
                       !.ret = out.ret]
        /\ addsTrue' = IF out.ret = "true" THEN addsTrue + 1 ELSE addsTrue
        /\ removedIds' = IF out.ret = "true" THEN removedIds \ {id}
                         ELSE removedIds
        /\ UNCHANGED <<fixedVars, removesTrue, diskVars, configVars>>

\* ReviewPipeline.ingest_approved_videos(videos), with the automatic save
\* that follows the loop
IngestApprovedVideos(videos) ==
    LET out == IngestLoop(Store, videos, 1,
                          [ret |-> "returned", store |-> Store,
                           attempted |-> 0, success |-> 0, failed |-> 0])
        autosave == out.ret = "returned" /\ storage_path
    IN  /\ addsTrue + out.success <= MaxStore
        /\ SetStore(out.store)
        /\ disk' = IF autosave THEN SaveOn(out.store, disk) ELSE disk
        /\ saved' = IF autosave THEN out.store ELSE saved
        /\ last' = [NoCall EXCEPT
                       !.op = "ingest_batch", !.ret = out.ret,
                       !.batch = [NoBatch EXCEPT
                                     !.total = Len(videos),
                                     !.attempted = out.attempted,
                                     !.success = out.success,
                                     !.failed = out.failed]]
        /\ addsTrue' = addsTrue + out.success
        /\ removedIds' = removedIds \ DOMAIN out.store.records
        /\ UNCHANGED <<fixedVars, removesTrue, configVars>>

\* ReviewPipeline.review_batch(video_paths): the loop, the summary, and the
\* percentages of the final report, which divide by total
ReviewBatch(items) ==
    /\ last' = [NoCall EXCEPT
                   !.op = "review_batch",
                   !.ret = IF Len(items) = 0 THEN "raise" ELSE "returned",
                   !.batch = ReviewLoop(
                                Store, auto_pass_threshold,
                                auto_reject_threshold, enable_format_check,
                                items, 1,
                                [NoBatch EXCEPT !.total = Len(items),
                                                !.items = items])]
    /\ UNCHANGED <<fixedVars, storeVars, histVars, diskVars,
                   configVars>>

\* ReviewPipeline.save(path): path or self.storage_path, and nothing at all
\* without either
PipelineSave(path_given) ==
    LET save_path == path_given \/ storage_path
    IN  /\ disk' = IF save_path THEN SaveOn(Store, disk) ELSE disk
        /\ saved' = IF save_path THEN Store ELSE saved
        /\ last' = [NoCall EXCEPT
                       !.op = "pipeline_save",
                       !.file = IF path_given THEN "path" ELSE "nopath",
                       !.ret = IF save_path THEN "saved" ELSE "nothing"]
        /\ UNCHANGED <<fixedVars, storeVars, histVars, configVars>>

\* search, entered by a thread: the size test, the scores and the
\* candidates (lines 198-216)
SearchBegin(q, top_k) ==
    /\ threads.search.pc = "idle"
    /\ IF size = 0
       THEN /\ last' = [NoCall EXCEPT !.op = "search", !.query = q,
                                      !.top_k = top_k, !.ret = "list"]
            /\ UNCHANGED threads
       ELSE LET scores == Scores(Store, q)
            IN  /\ threads' =
                      [threads EXCEPT
                          !.search = [pc |-> "test", top_k |-> top_k,
                                      scores |-> scores,
                                      cands |-> Candidates(FAISS_AVAILABLE,
                                                           scores, top_k),
                                      i |-> 1, video_id |-> "",
                                      results |-> <<>>]]
                /\ UNCHANGED last
    /\ UNCHANGED <<readOnlyVars, storeVars, histVars, diskVars,
                   configVars>>

\* the search returns `results`
SearchReturns(results) ==
    /\ threads' = [threads EXCEPT !.search = NoThreads.search]
    /\ last' = [NoCall EXCEPT !.op = "search",
                              !.top_k = threads.search.top_k,
                              !.ret = "list", !.results = results]

\* the search ends in a KeyError
SearchRaises ==
    /\ threads' = [threads EXCEPT !.search = NoThreads.search]
    /\ last' = [NoCall EXCEPT !.op = "search",
                              !.top_k = threads.search.top_k,
                              !.ret = "raise"]

\* for score, idx in zip(scores, indices): if idx in self.idx_to_id
SearchTest ==
    LET t == threads.search
    IN  /\ t.pc = "test"
        /\ IF t.i > Len(t.cands) THEN SearchReturns(t.results)
           ELSE /\ threads' =
                      [threads EXCEPT
                          !.search = IF t.cands[t.i] \in DOMAIN idx_to_id
                                     THEN [t EXCEPT !.pc = "lookup_id"]
                                     ELSE [t EXCEPT !.i = @ + 1]]
                /\ UNCHANGED last
        /\ UNCHANGED <<readOnlyVars, storeVars, histVars, diskVars,
                       configVars>>

\* video_id = self.idx_to_id[idx]
SearchLookupId ==
    LET t == threads.search
    IN  /\ t.pc = "lookup_id"
        /\ IF t.cands[t.i] \notin DOMAIN idx_to_id THEN SearchRaises
           ELSE /\ threads' =
                      [threads EXCEPT
                          !.search = [t EXCEPT
                                         !.pc = "lookup_record",
                                         !.video_id =
                                             idx_to_id[t.cands[t.i]]]]
                /\ UNCHANGED last
        /\ UNCHANGED <<readOnlyVars, storeVars, histVars, diskVars,
                       configVars>>

\* record = self.records[video_id]; results.append; the break test
SearchLookupRecord ==
    LET t == threads.search
        r == Append(t.results,
                    [video_id |-> t.video_id,
                     similarity |-> t.scores[t.cands[t.i] + 1],
                     record |-> records[t.video_id]])
    IN  /\ t.pc = "lookup_record"
        /\ IF t.video_id \notin DOMAIN records THEN SearchRaises
           ELSE IF Len(r) >= t.top_k THEN SearchReturns(r)
           ELSE /\ threads' =
                      [threads EXCEPT
                          !.search = [t EXCEPT !.pc = "test", !.i = @ + 1,
                                               !.results = r]]
                /\ UNCHANGED last
        /\ UNCHANGED <<readOnlyVars, storeVars, histVars, diskVars,
                       configVars>>

\* remove, entered by a thread: the membership test and idx =
\* self.id_to_idx[video_id]
RemoveBegin(video_id) ==
    /\ threads.remove.pc = "idle"
    /\ IF video_id \notin DOMAIN records
       THEN /\ last' = [NoCall EXCEPT !.op = "remove", !.id = video_id,
                                      !.ret = "false"]
            /\ UNCHANGED threads
       ELSE /\ removesTrue < MaxStore
            /\ threads' =
                  [threads EXCEPT
                      !.remove = [pc |-> "del_records",
                                  video_id |-> video_id,
                                  idx |-> id_to_idx[video_id]]]
            /\ UNCHANGED last
    /\ UNCHANGED <<readOnlyVars, storeVars, histVars, diskVars,
                   configVars>>

\* del self.records[video_id]
RemoveDelRecords ==
    /\ threads.remove.pc = "del_records"
    /\ records' = MapWithout(records, threads.remove.video_id)
    /\ threads' = [threads EXCEPT !.remove.pc = "del_id_to_idx"]
    /\ UNCHANGED <<readOnlyVars, id_to_idx, idx_to_id, storage, last,
                   histVars, diskVars, configVars>>

\* del self.id_to_idx[video_id]
RemoveDelIdToIdx ==
    /\ threads.remove.pc = "del_id_to_idx"
    /\ id_to_idx' = MapWithout(id_to_idx, threads.remove.video_id)
    /\ threads' = [threads EXCEPT !.remove.pc = "del_idx_to_id"]
    /\ UNCHANGED <<readOnlyVars, records, idx_to_id, storage, last,
                   histVars, diskVars, configVars>>

\* del self.idx_to_id[idx]; return True
RemoveDelIdxToId ==
    /\ threads.remove.pc = "del_idx_to_id"
    /\ idx_to_id' = MapWithout(idx_to_id, threads.remove.idx)
    /\ threads' = [threads EXCEPT !.remove = NoThreads.remove]
    /\ last' = [NoCall EXCEPT !.op = "remove",
                              !.id = threads.remove.video_id,
                              !.present = TRUE, !.ret = "true"]
    /\ removesTrue' = removesTrue + 1
    /\ removedIds' = removedIds \cup {threads.remove.video_id}
    /\ UNCHANGED <<readOnlyVars, records, id_to_idx, storage, addsTrue,
                   diskVars, configVars>>

\* SiliconFlowReviewer.review_video(video_path)
ReviewVideo(pre, first, second) ==
    /\ reviewer' = [reviewer EXCEPT
                       !.call = ReviewVideoOn(reviewer, pre, first, second)]
    /\ UNCHANGED <<FAISS_AVAILABLE, threads, storeVars, histVars, diskVars,
                   configVars, last>>

AddStep ==
    \E video_id \in Ids, feature \in AddVectors, video_path \in Paths,
       overwrite \in BOOLEAN :
        Add(video_id, feature, video_path, overwrite)

RemoveStep == \E video_id \in Ids : Remove(video_id)

SearchStep == \E q \in QueryVectors, top_k \in TopKs : Search(q, top_k)

Next == AddStep \/ RemoveStep \/ SearchStep

Spec == Init /\ [][Next]_vars

\* the store with room for tombstones: two ids overwritten and removed,
\* searched with one query
TombstoneAddStep ==
    \E video_id \in Ids, feature \in {<<2, 0>>, <<3, 4>>},
       overwrite \in BOOLEAN :
        AddWithin(MaxSlots, video_id, feature, "p1", overwrite)

TombstoneRemoveStep == \E video_id \in Ids : RemoveWithin(MaxSlots, video_id)

TombstoneSearchStep == \E top_k \in TopKs : Search(<<4, 3>>, top_k)

NextTombstone ==
    TombstoneAddStep \/ TombstoneRemoveStep \/ TombstoneSearchStep

SpecTombstone == Init /\ [][NextTombstone]_vars

\* the store called from threads, as the code has it: without a lock.  A
\* search and a remove advance statement by statement in any order, a save
\* may fall between any two statements; adds come while no call is in
\* flight
Quiet == threads = NoThreads

ThreadAddStep ==
    \E video_id \in Ids : Quiet /\ Add(video_id, <<2, 0>>, "p1", FALSE)

SearchBeginStep == \E top_k \in TopKs : SearchBegin(<<4, 3>>, top_k)

RemoveBeginStep == \E video_id \in Ids : RemoveBegin(video_id)

NextThreads ==
    \/ ThreadAddStep
    \/ SearchBeginStep \/ SearchTest \/ SearchLookupId \/ SearchLookupRecord
    \/ RemoveBeginStep \/ RemoveDelRecords \/ RemoveDelIdToIdx
    \/ RemoveDelIdxToId
    \/ Save

SpecThreads == Init /\ [][NextThreads]_vars

\* the store with its persistence: adds of well-formed vectors, removes,
\* saves and loads
PersistAddStep ==
    \E video_id \in Ids, feature \in {v \in AddVectors : Len(v) = Dimension},
       overwrite \in BOOLEAN :
        Add(video_id, feature, "p1", overwrite)

NextPersist == PersistAddStep \/ RemoveStep \/ Save \/ Load

SpecPersist == Init /\ [][NextPersist]_vars

\* the store under add, remove, search and save: no load, which replaces
\* the vector storage by the one on disk
AppendAddStep ==
    \E video_id \in Ids, feature \in AddVectors, overwrite \in BOOLEAN :
        Add(video_id, feature, "p1", overwrite)

AppendSearchStep == \E top_k \in TopKs : Search(<<4, 3>>, top_k)

NextAppend == AppendAddStep \/ RemoveStep \/ AppendSearchStep \/ Save

SpecAppend == Init /\ [][NextAppend]_vars

\* the same, with saves that are cut short
SaveInterruptedStep == \E steps \in {0, 1} : SaveInterrupted(steps)

NextCrash == NextPersist \/ SaveInterruptedStep

SpecCrash == Init /\ [][NextCrash]_vars

\* the decision maker over a store that grows and shrinks: one video is
\* added, removed and added again with another feature
ReviewAddStep ==
    \E video_id \in ReviewIds,
       feature \in {v \in AddVectors : Len(v) = Dimension} :
        Add(video_id, feature, "p1", FALSE)

ReviewRemoveStep == \E video_id \in ReviewIds : Remove(video_id)

ReviewStep ==
    \E md \in MetadataOutcomes, enc \in EncodeOutcomes, top_k \in TopKs :
        Review(md, enc, top_k)

UpdateThresholdsStep ==
    \E auto_pass \in ThresholdArgs, auto_reject \in ThresholdArgs :
        UpdateThresholds(auto_pass, auto_reject)

NextReview ==
    ReviewAddStep \/ ReviewRemoveStep \/ ReviewStep \/ UpdateThresholdsStep

SpecReview == InitReview /\ [][NextReview]_vars

\* the pipeline's whitelist management: ingestion, feedback, removal and
\* save, with or without a storage path
InitPipeline ==
    /\ InitStore
    /\ auto_pass_threshold = DefaultPass
    /\ auto_reject_threshold = DefaultReject
    /\ enable_format_check = TRUE
    /\ storage_path \in BOOLEAN

IngestStep ==
    \E f \in VideoFiles, exists \in BOOLEAN, video_id \in IdArgs,
       enc \in PipelineEncodeOutcomes :
        IngestApprovedVideo("ingest", PathArg(f), exists, video_id, enc)

\* ReviewPipeline.feedback_approved(video_path, video_id)
FeedbackStep ==
    \E f \in VideoFiles, exists \in BOOLEAN, enc \in PipelineEncodeOutcomes :
        IngestApprovedVideo("feedback", PathArg(f), exists, NoId, enc)

\* ReviewPipeline.remove_from_whitelist(video_id)
RemoveFromWhitelistStep == \E video_id \in Ids : Remove(video_id)

IngestBatchStep ==
    \E videos \in Lists(BatchEntries) : IngestApprovedVideos(videos)

\* ReviewPipeline.save()
PipelineSaveStep == PipelineSave(FALSE)

NextPipeline ==
    IngestStep \/ FeedbackStep \/ RemoveFromWhitelistStep
        \/ PipelineSaveStep

SpecPipeline == InitPipeline /\ [][NextPipeline]_vars

\* batch ingestion over a whitelist that also shrinks
NextIngestBatch == IngestBatchStep \/ RemoveFromWhitelistStep

SpecIngestBatch == InitPipeline /\ [][NextIngestBatch]_vars

\* batch review over a whitelist that grows and shrinks
ReviewBatchStep == \E items \in Lists(BatchItems) : ReviewBatch(items)

NextReviewBatch == ReviewAddStep \/ ReviewRemoveStep \/ ReviewBatchStep

SpecReviewBatch == Init /\ [][NextReviewBatch]_vars

\* the decision maker over two videos that are added and removed, and so
\* over live records next to tombstones
BestMatchAddStep ==
    \E video_id \in Ids, feature \in {<<2, 0>>, <<3, 4>>} :
        Add(video_id, feature, "p1", FALSE)

BestMatchReviewStep ==
    \E md \in {m \in MetadataOutcomes : ~m.is_vertical},
       enc \in EncodeOutcomes, top_k \in TopKs :
        Review(md, enc, top_k)

NextBestMatch == BestMatchAddStep \/ RemoveStep \/ BestMatchReviewStep

SpecBestMatch == Init /\ [][NextBestMatch]_vars

\* the calls that only read the store, next to the ones that change it
FrameSearchStep ==
    \E q \in {<<4, 3>>, <<0, 0>>}, top_k \in TopKs : Search(q, top_k)

NextFrame ==
    ReviewAddStep \/ ReviewRemoveStep \/ FrameSearchStep \/ ReviewStep
        \/ UpdateThresholdsStep

SpecFrame == Init /\ [][NextFrame]_vars

\* the SiliconFlow reviewer under each review configuration
InitDoubleCheck ==
    /\ InitWhitelist
    /\ auto_pass_threshold = DefaultPass
    /\ auto_reject_threshold = DefaultReject
    /\ enable_format_check = TRUE
    /\ storage_path = TRUE
    /\ reviewer \in {[NoReviewer EXCEPT !.confidence_threshold = t,
                                        !.enable_double_check = e] :
                         t \in {DefaultConfidenceThreshold, One},
                         e \in BOOLEAN}

ReviewVideoStep ==
    \E pre \in PreOutcomes, first \in ApiOutcomes, second \in ApiOutcomes :
        ReviewVideo(pre, first, second)

NextDoubleCheck == ReviewVideoStep

SpecDoubleCheck == InitDoubleCheck /\ [][NextDoubleCheck]_vars

\* the decision maker with its thresholds moved over three levels
MonotoneUpdateStep ==
    \E auto_pass \in {NoneArg} \cup {[given |-> TRUE, value |-> v] :
                                        v \in MonotoneThresholdValues},
       auto_reject \in {NoneArg} \cup {[given |-> TRUE, value |-> v] :
                                          v \in MonotoneThresholdValues} :
        UpdateThresholds(auto_pass, auto_reject)

MonotoneReviewStep ==
    \E md \in MetadataOutcomes, enc \in EncodeOutcomes :
        Review(md, enc, 1)

NextMonotone ==
    ReviewAddStep \/ ReviewRemoveStep \/ MonotoneReviewStep
        \/ MonotoneUpdateStep

SpecMonotone == InitReview /\ [][NextMonotone]_vars

\* ------------------------------------------------------------ properties
ResultIds(results) == {results[i].video_id : i \in 1..Len(results)}

\* C1: after any sequence of add and remove calls id_to_idx and idx_to_id
\* are mutual inverses, and records has exactly the keys of id_to_idx.
C1_MappingsInverse ==
    /\ \A id \in DOMAIN id_to_idx :
          /\ id_to_idx[id] \in DOMAIN idx_to_id
          /\ idx_to_id[id_to_idx[id]] = id
    /\ \A s \in DOMAIN idx_to_id :
          /\ idx_to_id[s] \in DOMAIN id_to_idx
          /\ id_to_idx[idx_to_id[s]] = s
    /\ DOMAIN records = DOMAIN id_to_idx

\* a remove has just left one live id next to two tombstones
C1_Witness ==
    /\ last.op = "remove" /\ last.ret = "true"
    /\ size = 1 /\ ntotal = MaxStore

\* C2: size is the number of add calls that returned True minus the number
\* of remove calls that returned True (the remove inside an overwriting add
\* included); it counts the mapped slots only, never a tombstoned one,
\* whatever the storage length.
C2_SizeIsAddsMinusRemoves ==
    /\ size = addsTrue - removesTrue
    /\ size = Cardinality({s \in 0..(ntotal - 1) : s \in DOMAIN idx_to_id})
    /\ ntotal - size =
          Cardinality({s \in 0..(ntotal - 1) : s \notin DOMAIN idx_to_id})

\* tombstones exist, one of them made by an overwriting add
C2_Witness ==
    /\ last.op = "add" /\ last.overwrite /\ last.present /\ last.ret = "true"
    /\ removesTrue >= 2 /\ ntotal > size

\* C3: once remove(id) has returned True, and until id is added again, no
\* search for any query and top_k returns id; the remove leaves the storage
\* length unchanged.
C3_RemovedNeverReturned ==
    /\ [](\A id \in removedIds, q \in QueryVectors, top_k \in TopKs :
             id \notin ResultIds(search(q, top_k)))
    /\ [][(last'.op = "remove" /\ last'.ret = "true")
             => Len(storage') = Len(storage)]_vars

\* a search that ran after a successful remove and found the other id
C3_Witness ==
    /\ last.op = "search" /\ Len(last.results) = 1
    /\ removedIds # {} /\ ntotal >= 2

\* C4: for every query and top_k >= 1, search returns at most top_k
\* results, each for a live id with the record held in records, no id
\* twice, in order of non-increasing similarity.
C4_SearchResultsWellFormed ==
    \A q \in QueryVectors, top_k \in TopKs :
        LET r == search(q, top_k)
        IN  /\ Len(r) <= top_k
            /\ \A i \in 1..Len(r) :
                  /\ r[i].video_id \in DOMAIN records
                  /\ r[i].video_id \in DOMAIN id_to_idx
                  /\ id_to_idx[r[i].video_id] \in DOMAIN idx_to_id
                  /\ r[i].record = records[r[i].video_id]
            /\ \A i, j \in 1..Len(r) :
                  (i # j) => (r[i].video_id # r[j].video_id)
            /\ \A i \in 1..(Len(r) - 1) :
                  r[i].similarity >= r[i + 1].similarity

\* a search over a store with a tombstone returned two results of
\* different similarity
C4_Witness ==
    /\ last.op = "search" /\ Len(last.results) = 2
    /\ last.results[1].similarity > last.results[2].similarity
    /\ ntotal > size

\* C9: add without overwrite on a live id, and remove on an id that is not
\* live, return False (no exception) and leave records, both mappings and
\* the storage unchanged.
C9_RefusedCallsChangeNothing ==
    [][(\/ last'.op = "add" /\ last'.id \in DOMAIN records
                            /\ ~last'.overwrite
        \/ last'.op = "remove" /\ last'.id \notin DOMAIN records)
          => /\ last'.ret = "false"
             /\ UNCHANGED <<records, id_to_idx, idx_to_id, storage>>]_vars

\* an add without overwrite was refused for a live id
C9_Witness ==
    /\ last.op = "add" /\ last.present /\ ~last.overwrite
    /\ last.ret = "false" /\ last.id \in DOMAIN records

\* C10: add with overwrite=True and a vector of the right dimension on a
\* live id returns True, keeps size, turns the id's old slot into a
\* tombstone, maps the id to the slot 'new storage length - 1', and grows
\* the storage by exactly one.
C10_OverwriteIsRemoveThenAdd ==
    [][(/\ last'.op = "add" /\ last'.id \in DOMAIN records
        /\ last'.overwrite /\ last'.dim = Dimension)
          => /\ last'.ret = "true"
             /\ Cardinality(DOMAIN records') = Cardinality(DOMAIN records)
             /\ id_to_idx[last'.id] \notin DOMAIN idx_to_id'
             /\ id_to_idx'[last'.id] = Len(storage') - 1
             /\ idx_to_id'[Len(storage') - 1] = last'.id
             /\ Len(storage') = Len(storage) + 1]_vars

\* an overwriting add succeeded on an id that was live, next to another
C10_Witness ==
    /\ last.op = "add" /\ last.present /\ last.overwrite
    /\ last.dim = Dimension /\ last.ret = "true" /\ size = 2

\* C5: after a save and a load of the saved path the store has the size,
\* the live ids and both mappings of the store that was saved, and answers
\* every search (any query, any top_k) as that store did.
C5_LoadRestoresSaved ==
    (last.op = "load" /\ last.ret = "loaded")
        => /\ size = SizeOf(saved)
           /\ DOMAIN records = DOMAIN saved.records
           /\ id_to_idx = saved.id_to_idx
           /\ idx_to_id = saved.idx_to_id
           /\ \A q \in QueryVectors, top_k \in TopKs :
                  SearchOn(Store, q, top_k) = SearchOn(saved, q, top_k)

\* a load brought back a saved store that has a live id and a tombstone
C5_Witness ==
    /\ last.op = "load" /\ last.ret = "loaded"
    /\ size >= 1 /\ ntotal > size
    /\ search(<<4, 3>>, 1) # <<>>

FormatFlagsOfTag(tag) ==
    IF tag = "vertical" THEN <<"vertical_video">>
    ELSE IF tag = "borders" THEN <<"black_borders">>
    ELSE <<"vertical_video", "black_borders">>

\* C7: with the format check enabled and metadata that reports is_vertical
\* or has_black_borders, review returns REJECTED with confidence 1.0 and
\* exactly the flags of the violated conditions, and neither reads
\* store.size nor calls store.search.
C7_FormatRejectsBeforeStore ==
    (/\ last.op = "review" /\ enable_format_check
     /\ last.md \in {"vertical", "borders", "vertical+borders"})
        => /\ last.review.decision = "rejected"
           /\ last.review.confidence = One
           /\ last.review.flags = FormatFlagsOfTag(last.md)
           /\ last.review.calls = <<>>
           /\ last.review.similar_videos = <<>>

\* a video with black borders only was rejected over a store that holds a
\* record its feature matches exactly
C7_Witness ==
    /\ last.op = "review" /\ enable_format_check /\ last.md = "borders"
    /\ last.enc = "feature" /\ size > 0
    /\ search(last.query, 1) # <<>>
    /\ search(last.query, 1)[1].similarity = One
    /\ last.review.decision = "rejected"

\* C8: when review is stopped neither by a read error, a format rejection
\* nor an encode failure, then with an empty store the decision is
\* MANUAL_REVIEW with confidence 0.0, no similar records, and search is not
\* called; and when search returns nothing although size > 0 the decision
\* is MANUAL_REVIEW with confidence 0.0 and no similar records.
C8_NoEvidenceIsManualReview ==
    (/\ last.op = "review" /\ last.md # "raise" /\ last.enc = "feature"
     /\ ~(enable_format_check /\ last.md # "plain"))
        => /\ (size = 0)
                 => /\ last.review.decision = "manual_review"
                    /\ last.review.confidence = 0
                    /\ last.review.similar_videos = <<>>
                    /\ last.review.calls = <<"size">>
           /\ (size > 0 /\ search(last.query, last.top_k) = <<>>)
                 => /\ last.review.decision = "manual_review"
                    /\ last.review.confidence = 0
                    /\ last.review.similar_videos = <<>>

\* a review over a store with a live record found nothing: the candidates
\* of the search were all tombstones
C8_Witness ==
    /\ last.op = "review" /\ last.enc = "feature" /\ last.md = "plain"
    /\ size > 0 /\ search(last.query, last.top_k) = <<>>
    /\ last.review.flags = <<"no_match">>

\* C11: across add, remove, search and save the vector storage is
\* append-only.  Its length never decreases; an add that returns True
\* lengthens it by exactly one and maps the id to the slot "new length - 1",
\* a slot at or above every slot given out before (all of those were below
\* the length of their time), so no slot is given out twice; remove, search
\* and save leave the storage as it is; every mapped slot is below the
\* storage length.
C11_StorageAppendOnly ==
    /\ [](/\ \A id \in DOMAIN id_to_idx : id_to_idx[id] < Len(storage)
          /\ \A idx \in DOMAIN idx_to_id : idx < Len(storage))
    /\ [][/\ Len(storage') >= Len(storage)
          /\ SubSeq(storage', 1, Len(storage)) = storage
          /\ (last'.op = "add" /\ last'.ret = "true") =>
                /\ Len(storage') = Len(storage) + 1
                /\ id_to_idx'[last'.id] = Len(storage') - 1
                /\ idx_to_id'[Len(storage') - 1] = last'.id
                /\ \A idx \in DOMAIN idx_to_id : idx < id_to_idx'[last'.id]
          /\ last'.op \in {"remove", "search", "save"} =>
                storage' = storage]_vars

\* an add has returned True over a saved store that holds two tombstones
C11_Witness ==
    /\ last.op = "add" /\ last.ret = "true"
    /\ ntotal = MaxStore /\ size = 1
    /\ disk.has_index /\ Len(disk.index) = MaxStore - 1

\* the decision review gives for md, enc and top_k over the present store,
\* were the thresholds auto_pass and auto_reject
DecisionUnder(auto_pass, auto_reject, md, enc, top_k) ==
    ReviewOn(Store, auto_pass, auto_reject, enable_format_check, md, enc,
             top_k).decision

\* a review that is approved before update_thresholds raises auto_pass
\* and not after it
ApprovalLost(md, enc, top_k) ==
    /\ DecisionUnder(last.old_pass, last.old_reject, md, enc, top_k)
          = "approved"
    /\ DecisionUnder(auto_pass_threshold, auto_reject_threshold, md, enc,
                     top_k) # "approved"

\* the two halves of decision monotonicity for the update_thresholds call
\* that has just returned; `ordered` is what is asked of the thresholds
\* before the call
MonotoneAfterUpdate(ordered) ==
    \A md \in MetadataOutcomes, enc \in EncodeOutcomes, top_k \in TopKs :
        LET before == DecisionUnder(last.old_pass, last.old_reject, md, enc,
                                    top_k)
            after == DecisionUnder(auto_pass_threshold,
                                   auto_reject_threshold, md, enc, top_k)
        IN  /\ ( /\ auto_pass_threshold > last.old_pass
                 /\ auto_reject_threshold = last.old_reject
                 /\ ordered ) =>
                  /\ before = "approved" =>
                        after \in {"approved", "manual_review"}
                  /\ before # "approved" => after # "approved"
            /\ ( /\ auto_reject_threshold < last.old_reject
                 /\ auto_pass_threshold = last.old_pass ) =>
                  (before = "rejected" =>
                      after \in {"rejected", "manual_review"})

C13_ConfidenceInUnitInterval ==
    last.op = "review" =>
        (0 <= last.review.confidence /\ last.review.confidence <= One)

\* C14: after construction and any update_thresholds calls both thresholds
\* lie in [0, 1] and auto_reject_threshold <= auto_pass_threshold.
C14_ThresholdsOrderedInRange ==
    /\ 0 <= auto_reject_threshold /\ auto_reject_threshold <= One
    /\ 0 <= auto_pass_threshold /\ auto_pass_threshold <= One
    /\ auto_reject_threshold <= auto_pass_threshold

\* C15: review returns a result for data-quality failures.  A failed
\* metadata read gives REJECTED with flags [read_error]; metadata read, no
\* format rejection and a failed encode give REJECTED with flags
\* [extraction_error]; both with no similar records and no call on the
\* store.
C15_DataFailuresRejected ==
    last.op = "review" =>
        /\ last.review.decision \in {"approved", "rejected", "manual_review"}
        /\ last.md = "raise" =>
              /\ last.review.decision = "rejected"
              /\ last.review.flags = <<"read_error">>
              /\ last.review.similar_videos = <<>>
              /\ last.review.calls = <<>>
        /\ ( /\ last.md # "raise"
             /\ ~( /\ enable_format_check
                   /\ last.md \in {"vertical", "borders", "vertical+borders"} )
             /\ last.enc = "raise" ) =>
              /\ last.review.decision = "rejected"
              /\ last.review.flags = <<"extraction_error">>
              /\ last.review.similar_videos = <<>>
              /\ last.review.calls = <<>>

\* the encode of a well-formed video has failed over a store that holds a
\* live record
C15_Witness ==
    /\ last.op = "review" /\ last.md = "plain" /\ last.enc = "raise"
    /\ size > 0
    /\ last.review.flags = <<"extraction_error">>

\* C16: ingest_approved_video, and feedback_approved which passes its
\* arguments to it, return False and leave records, both slot mappings and
\* the storage as they were when the file does not exist, when encode
\* raises, or when the id is already in the whitelist.
C16_FailedIngestChangesNothing ==
    [][( /\ last'.op \in {"ingest", "feedback"}
         /\ \/ last'.file = "missing"
            \/ last'.file = "exists" /\ last'.enc = "raise"
            \/ last'.file = "exists" /\ last'.present )
        => /\ last'.ret = "false"
           /\ storeVars' = storeVars]_vars

\* feedback for an id the whitelist holds was refused, next to a tombstone
C16_Witness ==
    /\ last.op = "feedback" /\ last.ret = "false"
    /\ last.file = "exists" /\ last.enc = "feature" /\ last.present
    /\ size = 1 /\ ntotal = 2

\* C18: ingest_approved_videos attempts every entry of its list even when
\* some entry fails (missing 'path' key, nonexistent file, encode failure,
\* duplicate id): the call returns, a failing entry is counted in failed,
\* and success + failed is the number of entries.
C18_BatchAttemptsEveryEntry ==
    last.op = "ingest_batch" =>
        /\ last.ret = "returned"
        /\ last.batch.attempted = last.batch.total
        /\ last.batch.success + last.batch.failed = last.batch.total

\* C20: programmer misuse is surfaced to the caller of the pipeline
\* operation.  A save with no storage path configured and no path argument
\* raises, and so does an ingest or feedback whose feature has not the
\* store's dimension.
C20_MisuseSurfaces ==
    /\ ( /\ last.op = "pipeline_save" /\ last.file = "nopath"
         /\ ~storage_path ) => last.ret = "raise"
    /\ ( /\ last.op \in {"ingest", "feedback"} /\ last.file = "exists"
         /\ last.enc = "feature" /\ ~last.present
         /\ last.dim # Dimension ) => last.ret = "raise"

\* C17: review_batch processes every path of its list in order even when
\* the review of some item raises.  The failing item counts in failed and
\* leaves one placeholder; the items after it are reviewed; the results
\* list has one entry per path, in input order; total = approved +
\* rejected + manual_review + failed = number of paths.  A list with at
\* least one path is returned to the caller.
C17_BatchIsolatesFailures ==
    last.op = "review_batch" =>
        LET b == last.batch
        IN  /\ b.total = Len(b.items)
            /\ b.attempted = b.total
            /\ Len(b.results) = b.total
            /\ \A i \in 1..b.total :
                  b.results[i] =
                      BatchResult(Store, auto_pass_threshold,
                                  auto_reject_threshold, enable_format_check,
                                  b.items[i])
            /\ b.failed = Cardinality({i \in 1..b.total :
                                          b.results[i] = "None"})
            /\ b.total = b.approved + b.rejected + b.manual_review + b.failed
            /\ b.total > 0 => last.ret = "returned"

\* the first video of a batch raised and the second was approved
C17_Witness ==
    /\ last.op = "review_batch" /\ last.ret = "returned"
    /\ last.batch.total = 2
    /\ last.batch.results = <<"None", "approved">>
    /\ last.batch.failed = 1 /\ last.batch.approved = 1

SearchFellShort ==
    /\ last.op = "search"
    /\ size >= last.top_k
    /\ Len(last.results) < last.top_k

\* C21 (as stated): search asks the index for min(2 * top_k, storage
\* length) candidates, so it can return fewer than top_k results although
\* size >= top_k; this happens only when more than half of the stored slots
\* are tombstones.
C21_ShortfallNeedsHalfTombstones ==
    SearchFellShort => 2 * (ntotal - size) > ntotal

\* C21 (amended): the shortfall happens only when the storage holds more
\* than 2 * top_k slots and more than top_k of them are tombstones; these
\* may be half of the slots or fewer.
C21_ShortfallNeedsTombstonesOverTopK ==
    SearchFellShort =>
        /\ ntotal > 2 * last.top_k
        /\ ntotal - size > last.top_k

\* a search for one result came back empty over two live records and two
\* tombstones
C21_Witness ==
    /\ SearchFellShort
    /\ last.top_k = 1 /\ last.results = <<>>
    /\ size = 2 /\ ntotal = 4

\* C22: the pipeline saves on mutation.  With a storage path configured,
\* once a pipeline operation that changed the store (ingest_approved_video,
\* ingest_approved_videos, feedback_approved, remove_from_whitelist) has
\* returned, a store freshly constructed on the storage path has the live
\* ids of the store in memory.
C22_SavedOnMutation ==
    ( /\ storage_path
      /\ \/ last.op \in {"ingest", "feedback", "remove"} /\ last.ret = "true"
         \/ /\ last.op = "ingest_batch" /\ last.ret = "returned"
            /\ last.batch.success > 0 )
        => DOMAIN FreshStoreOn(FAISS_AVAILABLE, disk).records = DOMAIN records

\* C23: add and remove exclude every other store operation.  No search
\* meets a slot-mapping update between its membership test of a candidate
\* slot, its id lookup and its record lookup, so no search fails on a
\* missing mapping or record; and no save persists records and mappings
\* that disagree.
C23_MutationsExclusive ==
    /\ ~(last.op = "search" /\ last.ret = "raise")
    /\ threads.search.pc \in {"lookup_id", "lookup_record"} =>
          threads.remove.pc = "idle"
    /\ disk.has_meta =>
          /\ DOMAIN disk.meta.records = DOMAIN disk.meta.id_to_idx
          /\ {disk.meta.id_to_idx[id] : id \in DOMAIN disk.meta.id_to_idx}
                = DOMAIN ParseIdxToId(disk.meta.idx_to_id)

\* C24: an add that fails with the dimension-mismatch error leaves the
\* store exactly as it was (records, both slot mappings, storage), for
\* every combination of id presence and overwrite flag; a live id
\* overwritten with a vector of the wrong length is still live afterwards.
C24_FailedAddChangesNothing ==
    [][(last'.op = "add" /\ last'.ret = "raise")
          => /\ storeVars' = storeVars
             /\ last'.present => last'.id \in DOMAIN records']_vars

\* the similarities of the live records to the query of the last call
LiveScores ==
    LET scores == Scores(Store, last.query)
    IN  {scores[idx + 1] : idx \in DOMAIN idx_to_id}

\* the last call is a review that reached the similarity steps
ReviewReachedStore ==
    /\ last.op = "review"
    /\ last.md \in {"plain", "vertical", "borders", "vertical+borders"}
    /\ ~( /\ enable_format_check
          /\ last.md \in {"vertical", "borders", "vertical+borders"} )
    /\ last.enc = "feature"

\* some live record is at least auto_pass_threshold similar to the query
LiveMatch == \E s \in LiveScores : s >= auto_pass_threshold

\* C25: if some live record's similarity to the query is >=
\* auto_pass_threshold and the review is not stopped by a read error, a
\* format rejection or an encode failure, review returns APPROVED, in every
\* store state reachable by add/remove, tombstones that outscore every live
\* record included.
C25_LiveMatchApproved ==
    (ReviewReachedStore /\ LiveMatch) => last.review.decision = "approved"

\* C26: whenever the search returns a non-empty list, the similarity of its
\* first result is the maximum similarity to the query over all live
\* records (a tombstone never puts a worse live record first), and the
\* confidence of the decision is that best live similarity.
C26_FirstResultIsBestLive ==
    (ReviewReachedStore /\ last.review.similar_videos # <<>>) =>
        /\ last.review.similar_videos[1].similarity \in LiveScores
        /\ \A s \in LiveScores :
              s <= last.review.similar_videos[1].similarity
        /\ last.review.confidence
              = last.review.similar_videos[1].similarity

\* two results came back over a tombstone, the better live record first
C26_Witness ==
    /\ ReviewReachedStore
    /\ Len(last.review.similar_videos) = 2
    /\ last.review.similar_videos[2].similarity
          < last.review.similar_videos[1].similarity
    /\ ntotal = MaxStore


\* C27: for top_k >= 1, if the number of tombstoned slots (storage length
\* minus size) is at most top_k, search returns exactly min(top_k, size)
\* results, and these are the min(top_k, size) live records of highest
\* similarity to the query.
C27_FewTombstonesFullAnswer ==
    ( /\ last.op = "search"
      /\ last.top_k >= 1
      /\ ntotal - size <= last.top_k ) =>
        LET scores == Scores(Store, last.query)
            results == last.results
            found == ResultIds(results)
        IN  /\ Len(results) = Min(last.top_k, size)
            /\ Cardinality(found) = Len(results)
            /\ found \subseteq DOMAIN records
            /\ \A i \in 1..Len(results) :
                  results[i].similarity
                      = scores[id_to_idx[results[i].video_id] + 1]
            /\ \A i \in 1..Len(results) :
                  \A id \in DOMAIN records \ found :
                      scores[id_to_idx[id] + 1] <= results[i].similarity

\* a search over two tombstones and two live records with top_k = 2 that
\* returned both live records
C27_Witness ==
    /\ last.op = "search"
    /\ last.top_k = 2
    /\ ntotal - size = 2
    /\ size = 2
    /\ Len(last.results) = 2


\* C28: review (on every path through it, the error and rejection paths
\* included), search and update_thresholds never change the store: records,
\* id_to_idx, idx_to_id and the storage length are the same after the call
\* as before; update_thresholds changes only the thresholds given as
\* non-None arguments and rebuilds nothing.
C28_ReadOnlyCalls ==
    [][(last'.op \in {"review", "search", "update_thresholds"}) =>
        /\ records' = records
        /\ id_to_idx' = id_to_idx
        /\ idx_to_id' = idx_to_id
        /\ Len(storage') = Len(storage)
        /\ last'.op = "update_thresholds" =>
              /\ ~last'.pass_given =>
                    auto_pass_threshold' = auto_pass_threshold
              /\ ~last'.reject_given =>
                    auto_reject_threshold' = auto_reject_threshold
              /\ enable_format_check' = enable_format_check
              /\ storage' = storage
        /\ last'.op \in {"review", "search"} =>
              /\ auto_pass_threshold' = auto_pass_threshold
              /\ auto_reject_threshold' = auto_reject_threshold]_vars

\* update_thresholds(auto_pass=0.6) moved auto_pass alone over a store that
\* holds a record and a tombstone
C28_Witness ==
    /\ last.op = "update_thresholds"
    /\ last.pass_given /\ ~last.reject_given
    /\ auto_pass_threshold # last.old_pass
    /\ auto_reject_threshold = last.old_reject
    /\ size = 1 /\ ntotal = 2


\* C29: review_batch returns normally with a (results, summary) pair for
\* every list of paths, the empty list included: for it the results list is
\* empty and total, approved, rejected, manual_review and failed are all 0.
C29_BatchAlwaysReturns ==
    last.op = "review_batch" =>
        /\ last.ret = "returned"
        /\ last.batch.items = <<>> =>
              /\ last.batch.results = <<>>
              /\ last.batch.total = 0
              /\ last.batch.approved = 0
              /\ last.batch.rejected = 0
              /\ last.batch.manual_review = 0
              /\ last.batch.failed = 0


\* the last review_video call went into the second round: double check is
\* enabled and the first result's confidence is below the threshold
DoubleChecked ==
    /\ reviewer.call.first.called
    /\ ~reviewer.call.first.raises
    /\ reviewer.enable_double_check
    /\ DictGet(reviewer.call.first.dict, "confidence", One)
          < reviewer.confidence_threshold

\* C30: in the SiliconFlow reviewer with double check enabled, a first
\* result whose confidence is below the confidence threshold is finally
\* approved only if the second round also returns approved.  When the two
\* rounds agree the merged decision is that decision; when they disagree
\* and either is rejected it is rejected; when they disagree otherwise it
\* is manual_review; when the second round fails, a first result that is
\* not rejected becomes manual_review and a rejected one stays rejected.
C30_DoubleCheckMerge ==
    DoubleChecked =>
        LET call == reviewer.call
            first == call.first.dict
            second == call.second
            d1 == DictGet(first, "decision", "manual_review")
            d2 == DictGet(second.dict, "decision", "manual_review")
        IN  /\ call.result.ret = "returned"
            /\ call.path \in {"merged", "second_failed"}
            /\ second.called
            /\ call.result.decision = "approved" =>
                  /\ ~second.raises
                  /\ "decision" \in second.dict.keys
                  /\ second.dict.decision = "approved"
                  /\ d1 = "approved"
            /\ (~second.raises /\ ~first.flags.null
                    /\ ~second.dict.flags.null) => call.path = "merged"
            /\ call.path = "merged" =>
                  /\ ~second.raises
                  /\ call.result.double_checked
                  /\ call.result.decision =
                        IF d1 = d2 THEN d1
                        ELSE IF "rejected" \in {d1, d2} THEN "rejected"
                        ELSE "manual_review"
            /\ second.raises => call.path = "second_failed"
            /\ call.path = "second_failed" =>
                  call.result.decision =
                      IF DictGet(first, "decision", "") = "rejected"
                      THEN "rejected" ELSE "manual_review"

\* the first round approved with confidence 0.7 < 0.8, the second round
\* approved too, and the video is approved
C30_Witness ==
    /\ DoubleChecked
    /\ reviewer.call.path = "merged"
    /\ reviewer.call.first.dict.decision = "approved"
    /\ reviewer.call.first.dict.confidence = 70
    /\ reviewer.call.result.decision = "approved"
    /\ reviewer.call.result.confidence = 90

====
